---------------------------- MODULE Spec2Model ----------------------------
(***************************************************************************)
(* The heap allocator of chap07/malloc.c: malloc(3) and free(3) over a     *)
(* doubly linked, address-ordered free list whose links live inside the    *)
(* free blocks, backed by sbrk(2).                                         *)
(*                                                                         *)
(* Memory is modelled byte by byte, because a request of n bytes puts the  *)
(* next header at p + H + n, which need not be word-aligned, and the link  *)
(* slots of a short block reach into the bytes of its neighbour.  The data *)
(* model is the 16-bit one (sizeof(size_t) = sizeof(void * ) = 2, little    *)
(* endian), so that every size_t computation is exact modulo 2^16.         *)
(*                                                                         *)
(* Spec is the process at large: requests of any byte count, a kernel that *)
(* may refuse sbrk, a caller that stores into its payloads.  SpecWords is  *)
(* the process whose requests are whole words and whose sbrk fails only at *)
(* the limit; its runs are runs of the 64-bit build scaled by 4.  SpecBig   *)
(* is the process that makes a few calls with requests up to the size of   *)
(* the whole data segment, and SpecStray the same process that may also    *)
(* pass free a pointer it did not get from malloc before any block exists. *)
(* SpecHuge is the process whose requests come close to 2^16 and 2^15, the *)
(* sizes at which the size_t arithmetic of malloc wraps around.            *)
(***************************************************************************)
EXTENDS Integers, Naturals, Sequences, FiniteSets, TLC

\* ------------------------------------------------------------------ bounds
\* number of bytes the break may grow above the heap base (RLIMIT_DATA)
MemSize == 32
\* largest request size passed to malloc
MaxReq == 4
\* number of bytes the user stores into live payloads over a run
MaxUserWrites == 1
\* number of malloc and free calls of a run
MaxCalls == 4
\* largest request, in words, and number of calls, of the whole-word runs
MaxWords == 3
MaxDeep == 8
\* largest request, and number of calls, of the short runs with large requests
MaxBig == 15
MaxShort == 3
\* how far below 2^w and below 2^(w-1) the largest requests lie
MaxWrap == 4

\* ------------------------------------------------------- program constants
\* _MALLOC_MAX_FREE_BLK, compile-time configurable (#ifndef)
MALLOC_MAX_FREE_BLK == 12
\* _MALLOC_HEADER_SIZE == sizeof(size_t)
H == 2
\* _MALLOC_POINTER_SIZE == sizeof(void * )
P == 2
\* size_t and pointers are 16 bits wide: arithmetic is modulo W
W == 65536
\* NULL
NULL == 0
\* (void * ) -1, sbrk's failure value
SBRK_FAILED == 65535
\* the program break before the first sbrk (word-aligned)
HeapBase == 256

MemTop == HeapBase + MemSize
Addr == HeapBase .. (MemTop - 1)
Mod(x) == ((x % W) + W) % W
\* a walk over more blocks than there are mapped addresses has met a cycle
Fuel == MemSize

VARIABLES
    mem,        \* contents of the bytes [HeapBase, MemTop)
    brk,        \* the program break
    free_list,  \* static char *_free_list
    live,       \* blocks handed out and not yet freed: [ptr, n]
    status,     \* "running", or how the process ended: "segv", "abort", "hang"
    last,       \* the last call: operation, argument, result, state before
    nwrites,    \* bytes the user has stored so far
    ncalls      \* calls of malloc and free made so far

vars == <<mem, brk, free_list, live, status, last, nwrites, ncalls>>

\* ------------------------------------------------------------ word access
\* A machine state threaded through a call: memory, break, list head, and how
\* the accesses went: segv (an access outside the mapped bytes), oob (an
\* access to mapped bytes at or above the break), hang (a walk that does not
\* end), ub (use of an uninitialised local), fail (sbrk returned -1),
\* nsbrk, the number of calls of sbrk, and wout (a write outside the bytes
\* from the heap base to the break).
Mach(m, b, f) ==
    [mem |-> m, brk |-> b, fl |-> f, segv |-> FALSE, oob |-> FALSE,
     hang |-> FALSE, ub |-> FALSE, fail |-> FALSE, nsbrk |-> 0, wout |-> FALSE]

Mapped(a) == a >= HeapBase /\ a + H <= MemTop

\* the access of the word at a is recorded
Acc(s, a) ==
    IF ~Mapped(a) THEN [s EXCEPT !.segv = TRUE]
    ELSE IF a + H > s.brk THEN [s EXCEPT !.oob = TRUE]
    ELSE s

RdW(s, a) == IF Mapped(a) THEN s.mem[a] + 256 * s.mem[a + 1] ELSE 0

\* a write of the word at a; wout records that it lay outside the bytes
\* from the heap base to the break as it stood
WrW(s, a, v) ==
    IF Mapped(a)
    THEN [Acc(s, a) EXCEPT !.mem = [@ EXCEPT ![a] = v % 256, ![a + 1] = v \div 256],
                           !.wout = @ \/ a + H > s.brk]
    ELSE [Acc(s, a) EXCEPT !.wout = TRUE]

write_size(s, ptr, size) == WrW(s, ptr, size)
read_size(s, ptr) == RdW(s, ptr)

set_previous_free_block(s, ptr, previous_ptr) == WrW(s, Mod(ptr + H), previous_ptr)
get_previous_free_block(s, ptr) == RdW(s, Mod(ptr + H))
set_next_free_block(s, ptr, next_ptr) == WrW(s, Mod(ptr + H + P), next_ptr)
get_next_free_block(s, ptr) == RdW(s, Mod(ptr + H + P))

\* the reads above leave the state alone; these record them
AccSize(s, ptr) == Acc(s, ptr)
AccPrev(s, ptr) == Acc(s, Mod(ptr + H))
AccNext(s, ptr) == Acc(s, Mod(ptr + H + P))

get_base_address(ptr) == Mod(ptr - H)

\* --------------------------------------------------------------- sbrk(2)
\* increment is a size_t converted to intptr_t.  A request above the limit
\* fails (ok is the kernel's answer otherwise); a request below the initial
\* break leaves the break where it is and reports success, as Linux does.
\* Bytes given back keep their contents or read as zero when mapped again.
sbrk(s, increment, ok, keep) ==
    LET inc == IF increment >= W \div 2 THEN increment - W ELSE increment
        new == s.brk + inc
        s1  == [s EXCEPT !.nsbrk = @ + 1]
    IN  IF ~ok \/ new > MemTop
        THEN [s |-> [s1 EXCEPT !.fail = TRUE], ret |-> SBRK_FAILED]
        ELSE IF new < HeapBase
        THEN [s |-> s1, ret |-> s.brk]
        ELSE [s |-> [s1 EXCEPT !.brk = new,
                               !.mem = [a \in Addr |->
                                          IF a >= new /\ a < s.brk /\ ~keep
                                          THEN 0 ELSE s.mem[a]]],
              ret |-> s.brk]

\* -------------------------------------------------------- list walks
RECURSIVE last_walk(_, _, _, _)
last_walk(s, curr, prev, fuel) ==
    IF curr = NULL THEN [s |-> s, ret |-> prev]
    ELSE IF fuel = 0 THEN [s |-> [s EXCEPT !.hang = TRUE], ret |-> prev]
    ELSE last_walk(AccNext(s, curr), get_next_free_block(s, curr), curr, fuel - 1)

\* with an empty list the loop body never runs and prev is returned
\* uninitialised; no caller gets there, _free_list being non-null at every
\* call of last_free_block
last_free_block(s) ==
    IF s.fl = NULL
    THEN [s |-> [s EXCEPT !.ub = TRUE], ret |-> NULL]
    ELSE last_walk(s, s.fl, NULL, Fuel)

\* ------------------------------------------------------------------ slice
slice(s, ptr, size) ==
    LET s1            == AccSize(AccNext(AccPrev(s, ptr), ptr), ptr)
        previous_ptr  == get_previous_free_block(s, ptr)
        next_ptr      == get_next_free_block(s, ptr)
        original_size == read_size(s, ptr)
    IN  IF original_size <= size
        THEN [s |-> s1, ret |-> NULL]
        ELSE
          LET p  == Mod(ptr + H + size)
              s2 == IF previous_ptr # NULL
                    THEN set_next_free_block(s1, previous_ptr, p)
                    ELSE [s1 EXCEPT !.fl = p]
              s3 == IF next_ptr # NULL
                    THEN set_previous_free_block(s2, next_ptr, p)
                    ELSE s2
              s4 == write_size(s3, ptr, size)
              s5 == write_size(s4, p, Mod(original_size - size - H))
              s6 == set_previous_free_block(s5, p, previous_ptr)
              s7 == set_next_free_block(s6, p, next_ptr)
          IN  [s |-> s7, ret |-> Mod(ptr + H)]

end_address(s, ptr) == Mod(ptr + H + read_size(s, ptr))
continuous(s, ptr1, ptr2) == end_address(s, ptr1) = ptr2

coalesce(s, ptr1, ptr2) ==
    LET new_size == Mod(read_size(s, ptr1) + H + read_size(s, ptr2))
    IN  write_size(AccSize(AccSize(s, ptr1), ptr2), ptr1, new_size)

\* -------------------------------------------------------- check_footprint
\* check_footprint leaving an empty list when the block it gives back has
\* no predecessor
check_footprint_resets_head(s, ok, keep) ==
    LET lw        == last_free_block(s)
        lastb     == lw.ret
        s1        == AccSize(AccPrev(lw.s, lastb), lastb)
        prev      == get_previous_free_block(s1, lastb)
        last_size == read_size(s1, lastb)
    IN  IF last_size >= MALLOC_MAX_FREE_BLK
        THEN LET s2 == IF prev # NULL THEN set_next_free_block(s1, prev, NULL)
                       ELSE [s1 EXCEPT !.fl = NULL]
             IN  sbrk(s2, Mod(0 - (last_size + H)), ok, keep).s
        ELSE s1

check_footprint(s, ok, keep) ==
    LET lw        == last_free_block(s)
        lastb     == lw.ret
        s1        == AccSize(AccPrev(lw.s, lastb), lastb)
        prev      == get_previous_free_block(s1, lastb)
        last_size == read_size(s1, lastb)
    IN  IF last_size >= MALLOC_MAX_FREE_BLK
        THEN LET s2 == IF prev # NULL THEN set_next_free_block(s1, prev, NULL) ELSE s1
             IN  sbrk(s2, Mod(0 - (last_size + H)), ok, keep).s
        ELSE s1

\* ----------------------------------------------------------------- malloc
\* the search taking a block of size exactly size + H
RECURSIVE first_fit_takes_exact(_, _, _, _)
first_fit_takes_exact(s, p, size, fuel) ==
    IF p = NULL THEN [s |-> s, ret |-> NULL]
    ELSE IF fuel = 0 THEN [s |-> [s EXCEPT !.hang = TRUE], ret |-> NULL]
    ELSE IF read_size(s, p) >= Mod(size + H)
         THEN [s |-> AccSize(s, p), ret |-> p]
         ELSE first_fit_takes_exact(AccNext(AccSize(s, p), p), get_next_free_block(s, p),
                        size, fuel - 1)

RECURSIVE first_fit(_, _, _, _)
first_fit(s, p, size, fuel) ==
    IF p = NULL THEN [s |-> s, ret |-> NULL]
    ELSE IF fuel = 0 THEN [s |-> [s EXCEPT !.hang = TRUE], ret |-> NULL]
    ELSE IF read_size(s, p) > Mod(size + H)
         THEN [s |-> AccSize(s, p), ret |-> p]
         ELSE first_fit(AccNext(AccSize(s, p), p), get_next_free_block(s, p),
                        size, fuel - 1)

\* malloc without the substitution of 1 for a request of 0 bytes
malloc_keeps_zero(s0, size_arg, ok1, ok2, keep) ==
    LET size == size_arg
        init ==
          IF s0.fl = NULL
          THEN LET r == sbrk(s0, Mod(2 * size + H), ok1, keep)
               IN  IF r.ret = SBRK_FAILED
                   THEN [s |-> r.s, failed |-> TRUE]
                   ELSE LET a == [r.s EXCEPT !.fl = r.ret]
                            b == write_size(a, r.ret, Mod(2 * size))
                            c == set_previous_free_block(b, r.ret, NULL)
                        IN  [s |-> set_next_free_block(c, r.ret, NULL),
                             failed |-> FALSE]
          ELSE [s |-> s0, failed |-> FALSE]
    IN  IF init.failed
        THEN [s |-> init.s, ret |-> NULL]
        ELSE
          LET ff == first_fit(init.s, init.s.fl, size, Fuel)
          IN  IF ff.ret # NULL
              THEN slice(ff.s, ff.ret, size)
              ELSE
                LET lw             == last_free_block(ff.s)
                    lastb          == lw.ret
                    s1             == AccSize(lw.s, lastb)
                    last_size      == read_size(s1, lastb)
                    break_increase == Mod(2 * size + H)
                    r              == sbrk(s1, break_increase, ok2, keep)
                IN  IF r.ret = SBRK_FAILED
                    THEN [s |-> r.s, ret |-> NULL]
                    ELSE slice(write_size(r.s, lastb, Mod(last_size + break_increase)),
                               lastb, size)

\* malloc raising the break by size + H when no block fits
malloc_grows_by_request(s0, size_arg, ok1, ok2, keep) ==
    LET size == IF size_arg = 0 THEN 1 ELSE size_arg
        init ==
          IF s0.fl = NULL
          THEN LET r == sbrk(s0, Mod(2 * size + H), ok1, keep)
               IN  IF r.ret = SBRK_FAILED
                   THEN [s |-> r.s, failed |-> TRUE]
                   ELSE LET a == [r.s EXCEPT !.fl = r.ret]
                            b == write_size(a, r.ret, Mod(2 * size))
                            c == set_previous_free_block(b, r.ret, NULL)
                        IN  [s |-> set_next_free_block(c, r.ret, NULL),
                             failed |-> FALSE]
          ELSE [s |-> s0, failed |-> FALSE]
    IN  IF init.failed
        THEN [s |-> init.s, ret |-> NULL]
        ELSE
          LET ff == first_fit(init.s, init.s.fl, size, Fuel)
          IN  IF ff.ret # NULL
              THEN slice(ff.s, ff.ret, size)
              ELSE
                LET lw             == last_free_block(ff.s)
                    lastb          == lw.ret
                    s1             == AccSize(lw.s, lastb)
                    last_size      == read_size(s1, lastb)
                    break_increase == Mod(size + H)
                    r              == sbrk(s1, break_increase, ok2, keep)
                IN  IF r.ret = SBRK_FAILED
                    THEN [s |-> r.s, ret |-> NULL]
                    ELSE slice(write_size(r.s, lastb, Mod(last_size + break_increase)),
                               lastb, size)

malloc(s0, size_arg, ok1, ok2, keep) ==
    LET size == IF size_arg = 0 THEN 1 ELSE size_arg
        init ==
          IF s0.fl = NULL
          THEN LET r == sbrk(s0, Mod(2 * size + H), ok1, keep)
               IN  IF r.ret = SBRK_FAILED
                   THEN [s |-> r.s, failed |-> TRUE]
                   ELSE LET a == [r.s EXCEPT !.fl = r.ret]
                            b == write_size(a, r.ret, Mod(2 * size))
                            c == set_previous_free_block(b, r.ret, NULL)
                        IN  [s |-> set_next_free_block(c, r.ret, NULL),
                             failed |-> FALSE]
          ELSE [s |-> s0, failed |-> FALSE]
    IN  IF init.failed
        THEN [s |-> init.s, ret |-> NULL]
        ELSE
          LET ff == first_fit(init.s, init.s.fl, size, Fuel)
          IN  IF ff.ret # NULL
              THEN slice(ff.s, ff.ret, size)
              ELSE
                LET lw             == last_free_block(ff.s)
                    lastb          == lw.ret
                    s1             == AccSize(lw.s, lastb)
                    last_size      == read_size(s1, lastb)
                    break_increase == Mod(2 * size + H)
                    r              == sbrk(s1, break_increase, ok2, keep)
                IN  IF r.ret = SBRK_FAILED
                    THEN [s |-> r.s, ret |-> NULL]
                    ELSE slice(write_size(r.s, lastb, Mod(last_size + break_increase)),
                               lastb, size)

\* ------------------------------------------------------------------- free
RECURSIVE insertion_walk(_, _, _, _, _)
insertion_walk(s, curr, prev, base_address, fuel) ==
    IF curr # NULL /\ curr < base_address
    THEN IF fuel = 0
         THEN [s |-> [s EXCEPT !.hang = TRUE], prev |-> prev, curr |-> curr]
         ELSE insertion_walk(AccNext(s, curr), get_next_free_block(s, curr), curr,
                             base_address, fuel - 1)
    ELSE [s |-> s, prev |-> prev, curr |-> curr]

\* prev -> ptr -> curr, merging curr as well when it follows ptr
free_middle_merges_curr(s, prev, base_address, curr, ok, keep) ==
    IF continuous(s, prev, base_address)
    THEN LET s1 == coalesce(AccSize(s, prev), prev, base_address)
         IN  IF continuous(s, base_address, curr)
             THEN set_next_free_block(coalesce(s1, prev, curr), prev,
                                      get_next_free_block(s1, curr))
             ELSE s1
    ELSE IF continuous(s, base_address, curr)
    THEN LET s1 == coalesce(AccSize(AccSize(s, prev), base_address), base_address, curr)
             s2 == set_next_free_block(s1, prev, base_address)
             s3 == set_previous_free_block(s2, base_address, prev)
             s4 == set_next_free_block(AccNext(s3, curr), base_address,
                                       get_next_free_block(s3, curr))
         IN  check_footprint(s4, ok, keep)
    ELSE LET s0 == AccSize(AccSize(s, prev), base_address)
             s1 == set_next_free_block(s0, prev, base_address)
             s2 == set_previous_free_block(s1, curr, base_address)
             s3 == set_previous_free_block(s2, base_address, prev)
         IN  set_next_free_block(s3, base_address, curr)

\* prev -> ptr -> curr
free_middle(s, prev, base_address, curr, ok, keep) ==
    IF continuous(s, prev, base_address)
    THEN coalesce(AccSize(s, prev), prev, base_address)
    ELSE IF continuous(s, base_address, curr)
    THEN LET s1 == coalesce(AccSize(AccSize(s, prev), base_address), base_address, curr)
             s2 == set_next_free_block(s1, prev, base_address)
             s3 == set_previous_free_block(s2, base_address, prev)
             s4 == set_next_free_block(AccNext(s3, curr), base_address,
                                       get_next_free_block(s3, curr))
         IN  check_footprint(s4, ok, keep)
    ELSE LET s0 == AccSize(AccSize(s, prev), base_address)
             s1 == set_next_free_block(s0, prev, base_address)
             s2 == set_previous_free_block(s1, curr, base_address)
             s3 == set_previous_free_block(s2, base_address, prev)
         IN  set_next_free_block(s3, base_address, curr)

\* prev -> ptr
free_tail(s, prev, base_address, ok, keep) ==
    IF continuous(s, prev, base_address)
    THEN check_footprint(coalesce(AccSize(s, prev), prev, base_address), ok, keep)
    ELSE LET s1 == set_next_free_block(AccSize(s, prev), prev, base_address)
             s2 == set_previous_free_block(s1, base_address, prev)
         IN  set_next_free_block(s2, base_address, NULL)

\* free_list = ptr -> curr
free_head(s, base_address, curr, ok, keep) ==
    LET t ==
          IF continuous(s, base_address, curr)
          THEN LET s1 == coalesce(AccSize(s, base_address), base_address, curr)
                   p  == get_next_free_block(s1, curr)
                   s2 == IF p # NULL
                         THEN set_previous_free_block(AccNext(s1, curr), p, base_address)
                         ELSE AccNext(s1, curr)
                   s3 == set_previous_free_block(s2, base_address, NULL)
                   s4 == set_next_free_block(s3, base_address, p)
               IN  check_footprint(s4, ok, keep)
          ELSE LET s1 == set_previous_free_block(AccSize(s, base_address), curr,
                                                 base_address)
                   s2 == set_previous_free_block(s1, base_address, NULL)
               IN  set_next_free_block(s2, base_address, curr)
    IN  [t EXCEPT !.fl = base_address]

\* free without the test of lines 314-317
free_without_list_test(s, ptr, ok, keep) ==
    IF ptr = NULL THEN [s |-> s, abort |-> FALSE]
    ELSE
      LET base_address == get_base_address(ptr)
          s1 == AccSize(s, base_address)
          w  == insertion_walk(s1, s1.fl, NULL, base_address, Fuel)
      IN  [s |-> IF w.prev # NULL
                 THEN IF w.curr # NULL
                      THEN free_middle(w.s, w.prev, base_address, w.curr, ok, keep)
                      ELSE free_tail(w.s, w.prev, base_address, ok, keep)
                 ELSE free_head(w.s, base_address, w.curr, ok, keep),
           abort |-> FALSE]

\* free without the test of lines 307-308
free_without_null_test(s, ptr, ok, keep) ==
    IF s.fl = NULL THEN [s |-> s, abort |-> TRUE]
    ELSE
      LET base_address == get_base_address(ptr)
          s1 == AccSize(s, base_address)
          w  == insertion_walk(s1, s1.fl, NULL, base_address, Fuel)
      IN  [s |-> IF w.prev # NULL
                 THEN IF w.curr # NULL
                      THEN free_middle(w.s, w.prev, base_address, w.curr, ok, keep)
                      ELSE free_tail(w.s, w.prev, base_address, ok, keep)
                 ELSE free_head(w.s, base_address, w.curr, ok, keep),
           abort |-> FALSE]

free(s, ptr, ok, keep) ==
    IF ptr = NULL THEN [s |-> s, abort |-> FALSE]
    ELSE IF s.fl = NULL THEN [s |-> s, abort |-> TRUE]
    ELSE
      LET base_address == get_base_address(ptr)
          s1 == AccSize(s, base_address)
          w  == insertion_walk(s1, s1.fl, NULL, base_address, Fuel)
      IN  [s |-> IF w.prev # NULL
                 THEN IF w.curr # NULL
                      THEN free_middle(w.s, w.prev, base_address, w.curr, ok, keep)
                      ELSE free_tail(w.s, w.prev, base_address, ok, keep)
                 ELSE free_head(w.s, base_address, w.curr, ok, keep),
           abort |-> FALSE]

\* ------------------------------------------------------------ the process
\* bytes the user stores into a payload
UserBytes == {0, 255}

Init ==
    /\ mem = [a \in Addr |-> 0]
    /\ brk = HeapBase
    /\ free_list = NULL
    /\ live = {}
    /\ status = "running"
    /\ last = [op |-> "none", arg |-> 0, ret |-> NULL, live0 |-> {}, brk0 |-> HeapBase,
               oob |-> FALSE, nsbrk |-> 0]
    /\ nwrites = 0
    /\ ncalls = 0

\* the process is killed: nothing else of its state is observed again
Die(how) ==
    /\ status' = how
    /\ UNCHANGED <<mem, brk, free_list, live, last, nwrites, ncalls>>

\* How a call ends, given the machine state s it computed.  An access outside
\* the mapped bytes is a SIGSEGV; a walk that never ends hangs the process; an
\* access between the break and the end of the mapping is undefined: the
\* process is killed or the access goes through.
Outcome(s, newlive, rec) ==
    IF s.hang /\ ~s.segv THEN Die("hang")
    ELSE IF s.segv \/ s.ub THEN Die("segv")
    ELSE \/ s.oob /\ Die("segv")
         \/ /\ mem' = s.mem
            /\ brk' = s.brk
            /\ free_list' = s.fl
            /\ live' = newlive
            /\ status' = "running"
            /\ last' = rec
            /\ ncalls' = ncalls + 1
            /\ UNCHANGED nwrites

MallocOp(Sizes, Oks, bound) ==
    /\ status = "running"
    /\ ncalls < bound
    /\ \E n \in Sizes, ok1 \in Oks, ok2 \in Oks :
         LET r == malloc(Mach(mem, brk, free_list), n, ok1, ok2, TRUE)
         IN  Outcome(r.s,
                     IF r.ret = NULL THEN live ELSE live \cup {[ptr |-> r.ret, n |-> n]},
                     [op |-> "malloc", arg |-> n, ret |-> r.ret, live0 |-> live,
                      brk0 |-> brk, oob |-> r.s.oob, nsbrk |-> r.s.nsbrk])

\* free of a pointer obtained from malloc and not freed since
FreeOp(Oks, Keeps, bound) ==
    /\ status = "running"
    /\ ncalls < bound
    /\ \E b \in live, ok \in Oks, keep \in Keeps :
         LET r == free(Mach(mem, brk, free_list), b.ptr, ok, keep)
         IN  IF r.abort THEN Die("abort")
             ELSE Outcome(r.s, live \ {b},
                          [op |-> "free", arg |-> b.ptr, ret |-> NULL, live0 |-> live,
                           brk0 |-> brk, oob |-> r.s.oob, nsbrk |-> r.s.nsbrk])

FreeNull ==
    /\ status = "running"
    /\ ncalls < MaxCalls
    /\ LET r == free(Mach(mem, brk, free_list), NULL, TRUE, TRUE)
       IN  IF r.abort THEN Die("abort")
           ELSE Outcome(r.s, live,
                        [op |-> "free", arg |-> NULL, ret |-> NULL, live0 |-> live,
                         brk0 |-> brk, oob |-> r.s.oob, nsbrk |-> r.s.nsbrk])

\* the user stores a byte into one of the n bytes it asked for
UserWrite ==
    /\ status = "running"
    /\ nwrites < MaxUserWrites
    /\ \E b \in live, v \in UserBytes :
         \E i \in 0 .. (b.n - 1) :
            /\ b.ptr + i >= HeapBase
            /\ b.ptr + i < brk
            /\ mem' = [mem EXCEPT ![b.ptr + i] = v]
    /\ nwrites' = nwrites + 1
    /\ last' = [last EXCEPT !.op = "store"]
    /\ UNCHANGED <<brk, free_list, live, status, ncalls>>

\* Any request size, a kernel that may refuse any sbrk, a user that stores
\* into its payloads.
Malloc == MallocOp(0 .. MaxReq, BOOLEAN, MaxCalls)
Free == FreeOp(BOOLEAN, BOOLEAN, MaxCalls)

Next == Malloc \/ Free \/ FreeNull \/ UserWrite

Spec == Init /\ [][Next]_vars

\* Requests that are whole words, and a kernel that refuses sbrk only at the
\* limit: every address and size is then a multiple of H, and a run is, word
\* for word, a run of the 64-bit build with every byte count multiplied by 4.
WordSizes == {k * H : k \in 1 .. MaxWords}
MallocWords == MallocOp(WordSizes, {TRUE}, MaxDeep)
FreeWords == FreeOp({TRUE}, {TRUE}, MaxDeep)

NextWords == MallocWords \/ FreeWords

SpecWords == Init /\ [][NextWords]_vars

\* A few calls, with requests of any byte count up to the limit of the data
\* segment: blocks as large as _MALLOC_MAX_FREE_BLK come out of a single call.
MallocBig == MallocOp(0 .. MaxBig, {TRUE}, MaxShort)
FreeBig == FreeOp({TRUE}, BOOLEAN, MaxShort)

NextBig == MallocBig \/ FreeBig

SpecBig == Init /\ [][NextBig]_vars

\* A few calls, with requests of whole words and requests so large that
\* 2n, 2n + H or n + H exceeds the range of size_t, or that 2n + H, taken as
\* the intptr_t sbrk receives, is negative.
WrapSizes == {W - k : k \in 1 .. MaxWrap} \cup {W \div 2 - k : k \in 0 .. MaxWrap}
MallocHuge == MallocOp(WordSizes \cup WrapSizes, {TRUE}, MaxShort)

NextHuge == MallocHuge \/ FreeBig

SpecHuge == Init /\ [][NextHuge]_vars

\* The misuse free detects: a pointer that malloc did not return is passed to
\* free while _free_list is null.
StrayPtrs == {1, HeapBase, HeapBase + H, MemTop}

FreeStray ==
    /\ status = "running"
    /\ free_list = NULL
    /\ \E ptr \in StrayPtrs :
         LET r == free(Mach(mem, brk, free_list), ptr, TRUE, TRUE)
         IN  IF r.abort THEN Die("abort")
             ELSE Outcome(r.s, live,
                          [op |-> "free", arg |-> ptr, ret |-> NULL, live0 |-> live,
                           brk0 |-> brk, oob |-> r.s.oob, nsbrk |-> r.s.nsbrk])

NextStray == MallocBig \/ FreeBig \/ FreeStray

SpecStray == Init /\ [][NextStray]_vars

\* ------------------------------------------------- the heap as it stands
Cur == Mach(mem, brk, free_list)

\* the state is the one a call of malloc or free has just returned in
AtExit == last.op \in {"malloc", "free"}

\* the blocks reached from _free_list through the next links
RECURSIVE ListFrom(_, _)
ListFrom(b, fuel) ==
    IF b = NULL \/ fuel = 0 \/ ~Mapped(b) THEN <<>>
    ELSE <<b>> \o ListFrom(get_next_free_block(Cur, b), fuel - 1)

\* what print_free_list shows of the list of a machine state s: address,
\* size, prev and next of every block reached from b
RECURSIVE print_free_list(_, _, _)
print_free_list(s, b, fuel) ==
    IF b = NULL \/ fuel = 0 \/ ~Mapped(b) THEN <<>>
    ELSE <<[addr |-> b, size |-> read_size(s, b),
            prev |-> get_previous_free_block(s, b),
            next |-> get_next_free_block(s, b)]>>
         \o print_free_list(s, get_next_free_block(s, b), fuel - 1)

FreeList == ListFrom(free_list, Fuel)
FreeBlocks == {FreeList[i] : i \in 1 .. Len(FreeList)}

\* two consecutive blocks of the free list of machine state s meet at
\* address e: the first ends where the second starts
AdjacentAt(s, e) ==
    LET l == print_free_list(s, s.fl, Fuel)
    IN  \E i \in 1 .. (Len(l) - 1) :
           l[i + 1].addr = e /\ continuous(s, l[i].addr, e)

\* the addresses above the heap base a whole-word block may start at
Boundaries == {HeapBase + k * H : k \in 1 .. (MemSize \div H - 1)}

\* the bytes the caller of malloc(n) may use
Payload(b) == b.ptr .. (b.ptr + (IF b.n = 0 THEN 1 ELSE b.n) - 1)

FootprintOf(base_address) == H + read_size(Cur, base_address)

RECURSIVE FootprintSum(_)
FootprintSum(S) ==
    IF S = {} THEN 0
    ELSE LET x == CHOOSE y \in S : TRUE IN FootprintOf(x) + FootprintSum(S \ {x})
LiveBases == {get_base_address(b.ptr) : b \in live}

\* ---------------------------------------------------------------- claims
\* C1: the payloads of two blocks live at the same time are disjoint, and
\* malloc never returns a block that overlaps a block still live.
C1_LivePayloadsDisjoint ==
    /\ \A b1 \in live : \A b2 \in live :
          b1 # b2 => Payload(b1) \cap Payload(b2) = {}
    /\ (last.op = "malloc" /\ last.ret # NULL) =>
          \A b \in last.live0 :
             Payload(b) \cap Payload([ptr |-> last.ret, n |-> last.arg]) = {}

\* C2: while a block is live its header records at least the n bytes asked
\* for and its n bytes lie inside [HeapBase, brk).
C2_LiveBlockInHeap ==
    AtExit =>
      \A b \in live :
         /\ read_size(Cur, get_base_address(b.ptr)) >= b.n
         /\ get_base_address(b.ptr) >= HeapBase
         /\ b.ptr + b.n <= brk

\* C3: at the exit of every call, every block b of the free list has
\* b.next = NULL or b.next.prev = b.
C3_NextPrevLink ==
    AtExit =>
      \A b \in FreeBlocks :
         LET n == get_next_free_block(Cur, b)
         IN  n = NULL \/ get_previous_free_block(Cur, n) = b

\* C4: at the exit of every call, every block b of the free list with a null
\* prev is the head, and otherwise b.prev is in the list and b.prev.next = b.
C4_PrevNextLink ==
    AtExit =>
      \A b \in FreeBlocks :
         LET q == get_previous_free_block(Cur, b)
         IN  IF q = NULL THEN free_list = b
             ELSE q \in FreeBlocks /\ get_next_free_block(Cur, q) = b

\* C5: at the exit of every call, consecutive blocks b1, b2 of the free list
\* satisfy b1 + H + b1.size <= b2.
C5_SortedNoOverlap ==
    AtExit =>
      \A i \in 1 .. (Len(FreeList) - 1) :
         FreeList[i] + H + read_size(Cur, FreeList[i]) <= FreeList[i + 1]

\* C6: after every call the live and the free blocks tile the heap: the sum
\* of H + size over them is brk - HeapBase.
C6_Tiling ==
    AtExit =>
      FootprintSum(LiveBases \cup FreeBlocks) = brk - HeapBase

\* C7: at the exit of every call the free list is empty or its last block
\* ends at the program break.
C7_TailAtBreak ==
    AtExit =>
      \/ free_list = NULL
      \/ /\ Len(FreeList) > 0
         /\ LET tail == FreeList[Len(FreeList)]
            IN  /\ get_next_free_block(Cur, tail) = NULL
                /\ tail + H + read_size(Cur, tail) = brk

\* C8: at the exit of every call every block of the free list has
\* size >= 2 * P.
C8_FreeBlockHoldsLinks ==
    AtExit => \A b \in FreeBlocks : read_size(Cur, b) >= 2 * P

\* C9: a block handed out for a request n < 2 * P has a header size of at
\* least 2 * P.
C9_SmallRequestPadded ==
    (last.op = "malloc" /\ last.ret # NULL /\ last.arg < 2 * P) =>
       read_size(Cur, get_base_address(last.ret)) >= 2 * P

\* C10: at the exit of every call the size of every block, live or free, is
\* a multiple of the word size H.
C10_SizesWordMultiple ==
    AtExit =>
      \A a \in LiveBases \cup FreeBlocks : read_size(Cur, a) % H = 0

\* C11: every non-null pointer malloc returns is a multiple of the word
\* size H (HeapBase is one), whatever the sizes asked for.
C11_ReturnedPointerAligned ==
    (last.op = "malloc" /\ last.ret # NULL) => last.ret % H = 0

\* C12: at the exit of every call no two consecutive blocks b1, b2 of the
\* free list are address-adjacent: b1 + H + b1.size # b2.
C12_NoAdjacentFreeBlocks ==
    AtExit =>
      \A i \in 1 .. (Len(FreeList) - 1) :
         ~continuous(Cur, FreeList[i], FreeList[i + 1])

\* C13: from a fresh process, malloc(n) followed at once by free of the
\* pointer it returned leaves a free list of exactly one block, at HeapBase,
\* with prev and next null, that ends at the break.
C13_AllocFreeFresh ==
    (ncalls = 2 /\ nwrites = 0 /\ last.op = "free" /\ last.arg # NULL) =>
       /\ FreeList = <<HeapBase>>
       /\ get_previous_free_block(Cur, HeapBase) = NULL
       /\ get_next_free_block(Cur, HeapBase) = NULL
       /\ HeapBase + H + read_size(Cur, HeapBase) = brk

\* C14: malloc(n) returning p followed at once by free(p) gives back the free
\* list there was before the malloc: the same blocks in the same order with
\* the same sizes and links, except that the last block and the break may be
\* larger when the malloc moved the break.
C14_AllocFreeRestores ==
    [][(ncalls' = ncalls + 1 /\ last'.op = "malloc" /\ last'.ret # NULL
        /\ free_list # NULL) =>
          LET r      == free(Mach(mem', brk', free_list'), last'.ret, TRUE, TRUE)
              before == print_free_list(Cur, free_list, Fuel)
              after  == print_free_list(r.s, r.s.fl, Fuel)
              grown  == brk' > brk
          IN  /\ ~r.abort /\ ~r.s.segv /\ ~r.s.hang
              /\ r.s.brk = brk \/ (grown /\ r.s.brk > brk)
              /\ Len(after) = Len(before)
              /\ \A i \in 1 .. Len(before) :
                    \/ after[i] = before[i]
                    \/ /\ grown /\ i = Len(before)
                       /\ after[i].size > before[i].size
                       /\ after[i] = [before[i] EXCEPT !.size = after[i].size]
       ]_vars

\* C15: malloc(0) does what malloc(1) does: in every state and whatever the
\* kernel answers, the pointer returned and the memory, break and list head
\* left are those of malloc(1); when no sbrk fails the pointer is non-null
\* and its block has at least 1 byte.
C15_ZeroLikeOne ==
    status = "running" =>
      \A ok1 \in BOOLEAN, ok2 \in BOOLEAN :
         LET r0 == malloc(Cur, 0, ok1, ok2, TRUE)
             r1 == malloc(Cur, 1, ok1, ok2, TRUE)
         IN  /\ r0 = r1
             /\ (~r0.s.fail /\ ~r0.s.segv /\ ~r0.s.hang) =>
                   /\ r0.ret # NULL
                   /\ read_size(r0.s, get_base_address(r0.ret)) >= 1

\* malloc(0) has been called and has returned a block
C15_Witness ==
    status = "running" /\ last.op = "malloc" /\ last.arg = 0 /\ last.ret # NULL

\* C16: free(NULL) is a no-op in every state, the fresh one included: it
\* leaves _free_list, every byte of the heap and the break as they are, and
\* does not send the signal.
C16_FreeNullNoOp ==
    status = "running" =>
      \A ok \in BOOLEAN, keep \in BOOLEAN :
         LET r == free(Cur, NULL, ok, keep)
         IN  /\ ~r.abort
             /\ r.s = Cur

\* free(NULL) has been called in the fresh process, which still runs
C16_Witness ==
    /\ status = "running" /\ last.op = "free" /\ last.arg = NULL
    /\ free_list = NULL /\ brk = HeapBase

\* C17: when malloc(n) returns NULL because sbrk failed, _free_list, every
\* byte of the heap and the break are what they were before the call.
C17_FailedMallocNoChange ==
    status = "running" =>
      \A n \in 0 .. MaxReq, ok1 \in BOOLEAN, ok2 \in BOOLEAN :
         LET r == malloc(Cur, n, ok1, ok2, TRUE)
         IN  (r.ret = NULL /\ r.s.fail) =>
                /\ r.s.mem = mem
                /\ r.s.brk = brk
                /\ r.s.fl = free_list

\* C18: when free is called with a non-null pointer while _free_list is
\* null, the signal is sent, and nothing of the heap, the break or _free_list
\* is changed, neither by free before it sends the signal nor in the step
\* that kills the process.
C18_StrayFreeAborts ==
    [][/\ (status = "running" /\ free_list = NULL) =>
             \A ptr \in StrayPtrs :
                LET r == free(Cur, ptr, TRUE, TRUE)
                IN  r.abort /\ r.s = Cur
       /\ status' = "abort" =>
             /\ free_list = NULL
             /\ mem' = mem /\ brk' = brk /\ free_list' = free_list
      ]_vars

\* the process has been killed by the signal free sends
C18_Witness == status = "abort" /\ free_list = NULL /\ live = {}

\* C19: under valid use free never sends the signal: the process is never
\* killed by it, and in every state free applied to a pointer that is live
\* does not send it, also after check_footprint has given back every block of
\* the free list.
C19_ValidFreeNeverAborts ==
    /\ status # "abort"
    /\ status = "running" =>
          \A b \in live, ok \in BOOLEAN, keep \in BOOLEAN :
             ~free(Cur, b.ptr, ok, keep).abort

\* a free has just lowered the break to or below every block of the free
\* list, and a block is still live
C19_Witness ==
    /\ status = "running" /\ last.op = "free" /\ brk < last.brk0
    /\ free_list # NULL
    /\ \A b \in FreeBlocks : b >= brk
    /\ live # {}

\* C20: when free coalesces in one of the three cases that call
\* check_footprint (middle next-adjacent, tail prev-adjacent, head
\* next-adjacent) and the last block of the list, after the coalesce, has
\* size s: if s >= _MALLOC_MAX_FREE_BLK that block is not reachable from
\* _free_list after the call and the break is lower by exactly s + H;
\* otherwise the break is unchanged.
C20_ReclaimLastBlock ==
    status = "running" =>
      \A b \in live :
         LET base_address == get_base_address(b.ptr)
             w       == insertion_walk(Cur, free_list, NULL, base_address, Fuel)
             middle  == /\ w.prev # NULL /\ w.curr # NULL
                        /\ ~continuous(Cur, w.prev, base_address)
                        /\ continuous(Cur, base_address, w.curr)
             tail    == /\ w.prev # NULL /\ w.curr = NULL
                        /\ continuous(Cur, w.prev, base_address)
             head    == /\ w.prev = NULL
                        /\ continuous(Cur, base_address, w.curr)
             r       == free(Cur, b.ptr, TRUE, TRUE)
             oldlast == last_free_block(Cur).ret
             lastb   == IF tail THEN w.prev
                        ELSE IF w.curr = oldlast THEN base_address ELSE oldlast
             size    == read_size(r.s, lastb)
             after   == print_free_list(r.s, r.s.fl, Fuel)
         IN  ((middle \/ tail \/ head)
              /\ ~r.abort /\ ~r.s.segv /\ ~r.s.hang /\ ~r.s.oob) =>
                IF size >= MALLOC_MAX_FREE_BLK
                THEN /\ \A i \in 1 .. Len(after) : after[i].addr # lastb
                     /\ r.s.brk = brk - (size + H)
                ELSE r.s.brk = brk

\* C21: when the block free gives back to the kernel is also the head of the
\* free list (its prev link is null), _free_list is null after the free.
C21_ReclaimedHeadEmptiesList ==
    status = "running" =>
      \A b \in live :
         LET base_address == get_base_address(b.ptr)
             w       == insertion_walk(Cur, free_list, NULL, base_address, Fuel)
             tail    == /\ w.prev # NULL /\ w.curr = NULL
                        /\ continuous(Cur, w.prev, base_address)
             head    == /\ w.prev = NULL
                        /\ continuous(Cur, base_address, w.curr)
             r       == free(Cur, b.ptr, TRUE, TRUE)
             \* the block check_footprint finds last
             lastb   == IF tail THEN w.prev ELSE last_free_block(Cur).ret
         IN  ((tail \/ head)
              /\ ~r.abort /\ ~r.s.segv /\ ~r.s.hang /\ ~r.s.oob
              /\ r.s.brk < brk
              /\ get_previous_free_block(Cur, lastb) = NULL) =>
                r.s.fl = NULL

\* C22: if sbrk fails when free tries to lower the break, the break is
\* unchanged and the last block of the free list is still linked after the
\* call: reachable from _free_list, its predecessor's next pointing to it.
C22_FailedShrinkKeepsTail ==
    status = "running" =>
      \A b \in live :
         LET base_address == get_base_address(b.ptr)
             w       == insertion_walk(Cur, free_list, NULL, base_address, Fuel)
             tail    == /\ w.prev # NULL /\ w.curr = NULL
                        /\ continuous(Cur, w.prev, base_address)
             r       == free(Cur, b.ptr, FALSE, TRUE)
             oldlast == last_free_block(Cur).ret
             \* the last block of the list once the freed block is merged
             lastb   == IF tail THEN w.prev
                        ELSE IF w.curr = oldlast THEN base_address ELSE oldlast
             after   == print_free_list(r.s, r.s.fl, Fuel)
             q       == get_previous_free_block(r.s, lastb)
         IN  (r.s.fail /\ ~r.abort /\ ~r.s.segv /\ ~r.s.hang /\ ~r.s.oob) =>
                /\ r.s.brk = brk
                /\ \E i \in 1 .. Len(after) : after[i].addr = lastb
                /\ q # NULL => get_next_free_block(r.s, q) = lastb

\* C23: malloc(n) never takes its result from a free block of size
\* <= n + H: when it returns a block without calling sbrk, that block was in
\* the free list with a size > n + H; otherwise it has raised the break (a
\* block of exactly n + H or n bytes is passed over).
C23_ExactFitSkipped ==
    [][(ncalls' = ncalls + 1 /\ last'.op = "malloc" /\ last'.ret # NULL
        /\ free_list # NULL) =>
          LET n == IF last'.arg = 0 THEN 1 ELSE last'.arg
              p == get_base_address(last'.ret)
          IN  IF last'.nsbrk = 0
              THEN /\ p \in FreeBlocks
                   /\ read_size(Cur, p) > n + H
                   /\ brk' = brk
              ELSE /\ brk' > brk
                   /\ \A q \in FreeBlocks : read_size(Cur, q) <= n + H
       ]_vars

\* malloc(n) has found a last block of exactly n + H bytes, has raised the
\* break by 2n + H and has left a remainder of n + H + n bytes
C23_Witness ==
    /\ status = "running" /\ last.op = "malloc" /\ last.ret # NULL
    /\ last.brk0 > HeapBase /\ last.nsbrk = 1 /\ last.arg > 0
    /\ brk = last.brk0 + 2 * last.arg + H
    /\ free_list = last.ret + last.arg
    /\ read_size(Cur, free_list) = 2 * last.arg + H

\* C24: in the fresh process a successful malloc(n), n >= 1, raises the
\* break by exactly 2n + H with a single call of sbrk, returns HeapBase + H
\* and leaves a free list of one block, at HeapBase + H + n, of size n - H.
C24_FirstMalloc ==
    (ncalls = 1 /\ last.op = "malloc" /\ last.ret # NULL /\ last.arg >= 1) =>
       /\ brk = HeapBase + 2 * last.arg + H
       /\ last.nsbrk = 1
       /\ last.ret = HeapBase + H
       /\ FreeList = <<HeapBase + H + last.arg>>
       /\ read_size(Cur, HeapBase + H + last.arg) = last.arg - H

\* C25: _free_list is null until a malloc whose sbrk call succeeds sets it,
\* and once it is not null no later step makes it null again.
C25_HeadNeverNullAgain ==
    [][/\ free_list # NULL => free_list' # NULL
       /\ (free_list = NULL /\ free_list' # NULL) =>
             /\ last'.op = "malloc" /\ ncalls' = ncalls + 1
             /\ brk' > brk
      ]_vars

\* every block has been freed and a free has lowered the break: _free_list
\* is still not null
C25_Witness ==
    /\ status = "running" /\ last.op = "free" /\ brk < last.brk0
    /\ live = {} /\ free_list # NULL

\* C26: malloc(n) is first-fit: when some block of the free list has
\* size > n + H, the block that is split is the first such block in list
\* order, the break is not changed and the size of no other block of the
\* list is changed.
C26_FirstFit ==
    [][(ncalls' = ncalls + 1 /\ last'.op = "malloc") =>
          LET n    == IF last'.arg = 0 THEN 1 ELSE last'.arg
              fits == {i \in 1 .. Len(FreeList) :
                          read_size(Cur, FreeList[i]) > n + H}
          IN  fits # {} =>
                LET first == CHOOSE i \in fits : \A j \in fits : i <= j
                IN  /\ last'.ret = FreeList[first] + H
                    /\ brk' = brk
                    /\ \A j \in 1 .. Len(FreeList) :
                          j # first =>
                            read_size(Mach(mem', brk', free_list'), FreeList[j])
                              = read_size(Cur, FreeList[j])
       ]_vars

\* C27: when malloc(n) splits a block p of the free list, of size orig and
\* with list neighbours prev_b and next_b: p's header becomes n, the
\* remainder at p + H + n has size orig - n - H and takes p's place in the
\* list (its prev is prev_b, its next is next_b, prev_b's next or _free_list
\* is the remainder, next_b's prev is the remainder), and p + H is returned.
C27_Split ==
    [][(ncalls' = ncalls + 1 /\ last'.op = "malloc" /\ last'.ret # NULL
        /\ last'.nsbrk = 0) =>
          LET n      == IF last'.arg = 0 THEN 1 ELSE last'.arg
              post   == Mach(mem', brk', free_list')
              p      == get_base_address(last'.ret)
              orig   == read_size(Cur, p)
              prev_b == get_previous_free_block(Cur, p)
              next_b == get_next_free_block(Cur, p)
              rem    == p + H + n
          IN  /\ p \in FreeBlocks
              /\ read_size(post, p) = n
              /\ read_size(post, rem) = orig - n - H
              /\ get_previous_free_block(post, rem) = prev_b
              /\ get_next_free_block(post, rem) = next_b
              /\ IF prev_b # NULL
                 THEN get_next_free_block(post, prev_b) = rem
                 ELSE free_list' = rem
              /\ next_b # NULL => get_previous_free_block(post, next_b) = rem
       ]_vars

\* C28: when the free list is not empty and none of its blocks has
\* size > n + H, a malloc(n) that succeeds asks sbrk once, for exactly
\* 2n + H bytes, and carves the result from the last block of the list grown
\* by that much: it returns tail + H and the remaining block, at
\* tail + H + n, has size old_tail_size + n.
C28_Growth ==
    [][(ncalls' = ncalls + 1 /\ last'.op = "malloc" /\ last'.ret # NULL
        /\ free_list # NULL) =>
          LET n    == IF last'.arg = 0 THEN 1 ELSE last'.arg
              post == Mach(mem', brk', free_list')
              tail == FreeList[Len(FreeList)]
          IN  (\A q \in FreeBlocks : read_size(Cur, q) <= n + H) =>
                /\ last'.nsbrk = 1
                /\ brk' = brk + 2 * n + H
                /\ last'.ret = tail + H
                /\ read_size(post, tail) = n
                /\ read_size(post, tail + H + n) = read_size(Cur, tail) + n
       ]_vars

\* malloc has raised the break and carved its result from the last of
\* several blocks of the free list
C28_Witness ==
    /\ status = "running" /\ last.op = "malloc" /\ last.ret # NULL
    /\ last.nsbrk = 1 /\ last.brk0 > HeapBase /\ brk > last.brk0
    /\ Len(FreeList) >= 2
    /\ FreeList[Len(FreeList)] = last.ret + last.arg

\* C29: when the freed block b follows the free block prev and is followed
\* by the free block curr, both without a gap, free merges b into prev only
\* (prev.size becomes prev.size + H + b.size): after the call prev and curr
\* are still two consecutive blocks of the list and prev ends where curr
\* starts.
C29_TripleCoalesce ==
    status = "running" =>
      \A b \in live :
         LET base_address == get_base_address(b.ptr)
             w     == insertion_walk(Cur, free_list, NULL, base_address, Fuel)
             r     == free(Cur, b.ptr, TRUE, TRUE)
             after == print_free_list(r.s, r.s.fl, Fuel)
         IN  (/\ w.prev # NULL /\ w.curr # NULL
              /\ continuous(Cur, w.prev, base_address)
              /\ continuous(Cur, base_address, w.curr)
              /\ ~r.abort /\ ~r.s.segv /\ ~r.s.hang /\ ~r.s.oob) =>
                /\ read_size(r.s, w.prev)
                     = read_size(Cur, w.prev) + H + read_size(Cur, base_address)
                /\ \E i \in 1 .. (Len(after) - 1) :
                      after[i].addr = w.prev /\ after[i + 1].addr = w.curr
                /\ continuous(r.s, w.prev, w.curr)
                /\ r.s.brk = brk

\* a free has merged the block it was given into the list block before it,
\* which now ends where the next list block starts
C29_Witness ==
    /\ status = "running" /\ last.op = "free" /\ last.arg # NULL
    /\ \E i \in 1 .. (Len(FreeList) - 1) :
          LET base_address == get_base_address(last.arg)
          IN  /\ FreeList[i] < base_address /\ base_address < FreeList[i + 1]
              /\ continuous(Cur, FreeList[i], FreeList[i + 1])
              /\ continuous(Cur, base_address, FreeList[i + 1])

\* C30: whenever a free leaves two consecutive blocks of the free list
\* address-adjacent, every continuation of valid malloc and free calls that
\* keeps operating on those blocks reaches a state in which the two have
\* been merged.  malloc and free are functions of the allocator state, so a
\* round of calls on those blocks that brings the allocator back to the
\* state it started in can be repeated for ever; the claim therefore
\* requires that no round malloc(n); free of the block just obtained, served
\* by the first of the two blocks, ends in the state it began in with the
\* two blocks still meeting at the same address after each call.  The
\* states looked at are those in which the list is well linked, sorted and
\* tiles the heap with the live blocks, and the requests those of at least
\* two pointers.
C30_AdjacencyEventuallyClosed ==
    \A e \in Boundaries, n \in WordSizes :
       (/\ status = "running" /\ last.op = "free" /\ AdjacentAt(Cur, e)
        /\ C3_NextPrevLink /\ C4_PrevNextLink /\ C5_SortedNoOverlap
        /\ C6_Tiling /\ C7_TailAtBreak /\ C8_FreeBlockHoldsLinks
        /\ n >= 2 * P) =>
          LET m == malloc(Cur, n, TRUE, TRUE, TRUE)
              f == free(Mach(m.s.mem, m.s.brk, m.s.fl), m.ret, TRUE, TRUE)
          IN  ~(/\ m.ret # NULL /\ m.ret < e
                /\ ~m.s.segv /\ ~m.s.hang /\ ~m.s.oob /\ ~m.s.ub
                /\ AdjacentAt(m.s, e)
                /\ ~f.abort /\ ~f.s.segv /\ ~f.s.hang /\ ~f.s.oob /\ ~f.s.ub
                /\ AdjacentAt(f.s, e)
                /\ f.s.mem = mem /\ f.s.brk = brk /\ f.s.fl = free_list)

\* C31: free changes the program break only when the block it has produced
\* or extended by coalescing (prev when the freed block follows prev, the
\* freed block when curr follows it) has a null next link once spliced (the
\* next link of prev, or the one the freed block takes over from curr); a
\* free whose coalesced block has a successor, and a free that coalesces
\* nothing, leave the break where it was.  The states looked at are those
\* in which the list is well linked, sorted and tiles the heap with the live
\* blocks, each of at least two pointers.
C31_ReclaimOnlyWhenMergedIsLast ==
    (/\ status = "running"
     /\ C3_NextPrevLink /\ C4_PrevNextLink /\ C5_SortedNoOverlap
     /\ C6_Tiling /\ C7_TailAtBreak /\ C8_FreeBlockHoldsLinks
     /\ \A x \in live : x.n >= 2 * P) =>
      \A b \in live :
         LET base_address == get_base_address(b.ptr)
             w       == insertion_walk(Cur, free_list, NULL, base_address, Fuel)
             prevadj == w.prev # NULL /\ continuous(Cur, w.prev, base_address)
             nextadj == /\ ~prevadj /\ w.curr # NULL
                        /\ continuous(Cur, base_address, w.curr)
             link    == IF prevadj THEN get_next_free_block(Cur, w.prev)
                        ELSE get_next_free_block(Cur, w.curr)
             r       == free(Cur, b.ptr, TRUE, TRUE)
         IN  (~r.abort /\ ~r.s.segv /\ ~r.s.hang /\ ~r.s.oob /\ r.s.brk # brk) =>
                /\ prevadj \/ nextadj
                /\ link = NULL

\* C32: a free that finds the freed block adjacent to neither neighbour
\* leaves the size field of every block, live or free, and the program break
\* as they were; a free that finds it between prev and curr and adjacent to
\* prev sets prev.size to prev.size + H + b.size and leaves the size of every
\* other block, the links of every block of the list, _free_list and the
\* program break as they were.
C32_FreeFrame ==
    status = "running" =>
      \A b \in live :
         LET base_address == get_base_address(b.ptr)
             w        == insertion_walk(Cur, free_list, NULL, base_address, Fuel)
             prevadj  == w.prev # NULL /\ continuous(Cur, w.prev, base_address)
             nextadj  == w.curr # NULL /\ continuous(Cur, base_address, w.curr)
             r        == free(Cur, b.ptr, TRUE, TRUE)
             blocks   == LiveBases \cup FreeBlocks
             ended    == ~r.abort /\ ~r.s.segv /\ ~r.s.hang /\ ~r.s.oob
         IN  /\ (ended /\ ~prevadj /\ ~nextadj) =>
                   /\ \A x \in blocks : read_size(r.s, x) = read_size(Cur, x)
                   /\ r.s.brk = brk
             /\ (ended /\ prevadj /\ w.curr # NULL) =>
                   /\ read_size(r.s, w.prev)
                        = read_size(Cur, w.prev) + H + read_size(Cur, base_address)
                   /\ \A x \in blocks \ {w.prev} : read_size(r.s, x) = read_size(Cur, x)
                   /\ \A x \in FreeBlocks :
                         /\ get_previous_free_block(r.s, x) = get_previous_free_block(Cur, x)
                         /\ get_next_free_block(r.s, x) = get_next_free_block(Cur, x)
                   /\ r.s.fl = free_list
                   /\ r.s.brk = brk

\* C33: a call of malloc never lowers the program break, a call of free
\* never raises it, and a step that is not a call (a store of the user, the
\* death of the process) leaves it where it is.
C33_BreakDirection ==
    [][/\ (ncalls' = ncalls + 1 /\ last'.op = "malloc") => brk' >= brk
       /\ (ncalls' = ncalls + 1 /\ last'.op = "free") => brk' <= brk
       /\ ncalls' = ncalls => brk' = brk]_vars

\* C34: every write of a header or a link made by a call of malloc or of
\* free goes to bytes between the heap base and the program break as it
\* stands when the write is made.
C34_WritesInsideHeap ==
    status = "running" =>
      /\ \A n \in WordSizes : ~malloc(Cur, n, TRUE, TRUE, TRUE).s.wout
      /\ \A b \in live : ~free(Cur, b.ptr, TRUE, TRUE).s.wout

\* C35: a call of malloc or free changes neither the size field nor any
\* payload byte of a block that is live before the call and still live after
\* it.
C35_LiveBlocksUntouched ==
    [][ncalls' = ncalls + 1 =>
          \A b \in live \cap live' :
             \A a \in (get_base_address(b.ptr) .. (b.ptr - 1)) \cup Payload(b) :
                a \in Addr => mem'[a] = mem[a]]_vars

\* C36: at the exit of every call no block reached from _free_list through
\* the next links is a live block or lies inside the payload of a live
\* block, and every one of them lies below the program break.
C36_ListBlocksAreFree ==
    AtExit =>
      \A x \in FreeBlocks :
         /\ x \notin LiveBases
         /\ \A b \in live : x \notin Payload(b)
         /\ x < brk

\* C37: no call hangs in a walk of the free list, and at the exit of every
\* call the next links from _free_list form a chain without a repeated block
\* that ends in a null link.
C37_ListWalksEnd ==
    /\ status # "hang"
    /\ (AtExit /\ free_list # NULL) =>
          /\ Len(FreeList) > 0
          /\ \A i, j \in 1 .. Len(FreeList) : i # j => FreeList[i] # FreeList[j]
          /\ get_next_free_block(Cur, FreeList[Len(FreeList)]) = NULL

\* C38: for every request n, those included for which 2n, 2n + H or n + H
\* exceeds the range of size_t, malloc(n) called in a state in which the
\* list is well linked, sorted and tiles the heap with the live blocks
\* returns null or a block whose n payload bytes lie between the heap base
\* and the break, and leaves no block in the list whose recorded size
\* reaches beyond the bytes obtained from sbrk.
C38_HugeRequests ==
    (/\ status = "running"
     /\ C1_LivePayloadsDisjoint /\ C2_LiveBlockInHeap
     /\ C3_NextPrevLink /\ C4_PrevNextLink /\ C5_SortedNoOverlap
     /\ C6_Tiling /\ C7_TailAtBreak /\ C8_FreeBlockHoldsLinks) =>
      \A n \in WordSizes \cup WrapSizes :
         LET r     == malloc(Cur, n, TRUE, TRUE, TRUE)
             after == print_free_list(r.s, r.s.fl, Fuel)
         IN  (~r.s.segv /\ ~r.s.hang) =>
                /\ r.ret # NULL =>
                      /\ get_base_address(r.ret) >= HeapBase
                      /\ r.ret + n <= r.s.brk
                      /\ read_size(r.s, get_base_address(r.ret)) >= n
                /\ \A i \in 1 .. Len(after) :
                      after[i].addr + H + after[i].size <= r.s.brk

=============================================================================
